---- MODULE Spec2Model ----
(***************************************************************************)
(* MCPClient of mcp-client-gemini: the provider registry built by          *)
(* connectToServers, the tool namespace (getAllTools, findToolServer),     *)
(* the single-round function-call loop of processQuery, and cleanup.       *)
(***************************************************************************)
EXTENDS Integers, Sequences, FiniteSets, TLC

\* ------------------------------------------------------------------ bounds
MaxServers == 2        \* entries in mcpServers of a configuration document
MaxTools == 2          \* tools in one listTools answer
MaxParts == 2          \* content parts of a candidate of the initial response
MaxFollowUpParts == 2  \* content parts of a candidate of a follow-up response
MaxQueries == 2        \* processQuery invocations on one client

\* --------------------------------------------------------------- universe
\* Keys of mcpServers.  "9" is a canonical array index, which a JavaScript
\* object enumerates before its other keys.
ServerNames == {"weather", "files", "9"}

ArrayIndex(name) ==
    CASE name = "9" -> 9
      [] OTHER -> -1

IsArrayIndex(name) == ArrayIndex(name) >= 0

Undefined == "undefined"

\* What a provider may answer for one tool in listTools.
RawTools ==
    { [name |-> "ping", description |-> Undefined,
       inputSchema |-> [type |-> "object", additionalProperties |-> "false"]
                         @@ ("$schema" :> "http://json-schema.org/draft-07/schema#")],
      [name |-> "getForecast", description |-> "Get the forecast",
       inputSchema |-> [type |-> "object", properties |-> "city"]] }

ToolNames == {r.name : r \in RawTools}

SeqsUpTo(S, n) == UNION {[1..k -> S] : k \in 0..n}

Range(s) == {s[i] : i \in DOMAIN s}

IsInjective(s) == \A i, j \in DOMAIN s : s[i] = s[j] => i = j

\* The answers of listTools: a provider lists a tool name once.
ToolLists == {l \in SeqsUpTo(RawTools, MaxTools) : IsInjective(l)}

\* The configuration document: missing file, unparsable text, a document
\* without mcpServers, or mcpServers with its keys in declaration order.
ConfigDocs ==
    { [kind |-> k, mcpServers |-> <<>>] : k \in {"absent", "malformed", "noServers"} }
    \cup { [kind |-> "servers", mcpServers |-> s] :
             s \in {t \in SeqsUpTo(ServerNames, MaxServers) : IsInjective(t)} }

ListErrors == {"Connection closed"}

\* A text is the sequence of its pieces; <<>> is the empty string.
Texts == {<<>>, <<"A">>, <<"B">>}

\* A content part is a text part or a function-call part.  The part with
\* the empty text and no call also stands for the other kinds of part
\* (inline data, ...), which the loop passes over in the same way.
Parts ==
    [text : Texts, functionCall : {Undefined}]
    \cup [text : {<<>>}, functionCall : ToolNames]

\* The parts of a follow-up response: the model may answer with a function
\* call again.
FollowUpParts == {p \in Parts : p.functionCall \in {Undefined, "ping"}}

\* A candidate, with content.parts possibly missing.
Candidates(P, n) ==
    {[hasParts |-> FALSE, parts |-> <<>>]}
    \cup {[hasParts |-> TRUE, parts |-> ps] : ps \in SeqsUpTo(P, n)}

\* A second candidate, which processQuery never looks at.
OtherCandidate ==
    [hasParts |-> TRUE, parts |-> <<[text |-> <<"B">>, functionCall |-> Undefined],
                                    [text |-> <<>>, functionCall |-> "ping"]>>]

\* The response of generateContent: candidates missing, empty, or present.
\* The responses with two candidates have a shorter first candidate.
Responses(P, n) ==
    {[hasCandidates |-> h, candidates |-> <<>>] : h \in BOOLEAN}
    \cup {[hasCandidates |-> TRUE, candidates |-> <<c>>] : c \in Candidates(P, n)}
    \cup {[hasCandidates |-> TRUE, candidates |-> <<c, OtherCandidate>>] :
             c \in Candidates(P, n - 1)}

ModelErrors == {"fetch failed"}

ToolErrors == {"MCP error -32603"}

\* String(result.content) of a callTool result: "" for an empty array.
ToolContents == {<<>>, <<"[object Object]">>}

QueryIds == 1..MaxQueries

\* ----------------------------------------------------------------- state
VARIABLES
    mcpConnections,   \* this.mcpConnections
    config,           \* the document the latest connectToServers loaded
    connectState,     \* connectToServers: "idle", "running", "connected", "failed"
    connectError,     \* the error connectToServers threw, <<>> when none
    serverEntries,    \* Object.entries(config.mcpServers) of the running call
    attempts,         \* the promises of connectionPromises, one per entry
    pq,               \* the processQuery invocations, by invocation
    clients,          \* the Client of each attempt: its link and the close calls on it
    cleanupCall,      \* the cleanup invocation and its cleanupPromises
    received          \* history: the answers given to each invocation, in order

vars == <<mcpConnections, config, connectState, connectError, serverEntries,
          attempts, pq, clients, cleanupCall, received>>

connectVars == <<mcpConnections, config, connectState, connectError,
                 serverEntries, attempts>>

\* --------------------------------------------------------------- helpers
\* Error text `${prefix}${error}`: the message segments in order.
ErrorOf(message) == <<"Error: ">> \o message

RECURSIVE SortByIndex(_)
SortByIndex(S) ==
    IF S = {} THEN <<>>
    ELSE LET m == CHOOSE x \in S : \A y \in S : ArrayIndex(x) <= ArrayIndex(y)
         IN  <<m>> \o SortByIndex(S \ {m})

\* Object.entries: array-index keys in ascending numeric order, then the
\* other keys in the order the document declares them.
ObjectEntries(declared) ==
    SortByIndex({n \in Range(declared) : IsArrayIndex(n)})
        \o SelectSeq(declared, LAMBDA n : ~IsArrayIndex(n))

\* loadServerConfig without the check of lines 91-93.
loadServerConfig_AcceptsEmpty(doc) ==
    CASE doc.kind = "absent" -> <<"config file not found in current directory">>
      [] doc.kind = "malformed" -> <<"SyntaxError">>
      [] OTHER -> <<>>

\* loadServerConfig: the error it throws, <<>> when it returns the config.
loadServerConfig(doc) ==
    CASE doc.kind = "absent" -> <<"config file not found in current directory">>
      [] doc.kind = "malformed" -> <<"SyntaxError">>
      [] doc.kind = "noServers" \/ Len(doc.mcpServers) = 0 ->
             <<"No server configuration found in config file">>
      [] OTHER -> <<>>

\* getConnectionServer, lines 113-120: the Tool built from a listed tool.
ToTool(raw, serverName) ==
    [name |-> raw.name,
     description |-> IF raw.description = Undefined THEN "" ELSE raw.description,
     input_schema |-> raw.inputSchema,
     serverName |-> serverName]

\* getConnectionServer, lines 122-127: the connection it returns.
ToConnection(serverName, listed) ==
    [serverName |-> serverName,
     tools |-> [k \in DOMAIN listed |-> ToTool(listed[k], serverName)]]

\* The values of the promises in the order in which they settled.
PromiseAllValues_ByCompletion(ps) ==
    [k \in DOMAIN ps |-> ps[CHOOSE j \in DOMAIN ps : ps[j].settledAt = k].value]

\* Promise.all: the values of the promises, in the order of the promises.
PromiseAllValues(ps) == [k \in DOMAIN ps |-> ps[k].value]

\* line 69: connections.filter(conn => conn !== null)
FilterConnections(connections) == SelectSeq(connections, LAMBDA c : c.serverName # Undefined)

\* findToolServer taking the last connection that lists the tool.
findToolServer_Last(conns, toolName) ==
    LET hits == {k \in DOMAIN conns :
                   \E j \in DOMAIN conns[k].tools : conns[k].tools[j].name = toolName}
    IN  IF hits = {} THEN [serverName |-> Undefined, tools |-> <<>>]
        ELSE conns[CHOOSE k \in hits : \A h \in hits : k >= h]

getAllTools(conns) ==
    LET RECURSIVE Flat(_)
        Flat(k) == IF k > Len(conns) THEN <<>> ELSE conns[k].tools \o Flat(k + 1)
    IN  Flat(1)

NoConnection == [serverName |-> Undefined, tools |-> <<>>]

findToolServer(conns, toolName) ==
    LET hits == {k \in DOMAIN conns :
                   \E j \in DOMAIN conns[k].tools : conns[k].tools[j].name = toolName}
    IN  IF hits = {} THEN NoConnection
        ELSE conns[CHOOSE k \in hits : \A h \in hits : k <= h]

\* An invocation of processQuery that has not started.
IdleQuery ==
    [pc |-> "idle", parts |-> <<>>, idx |-> 0, finalText |-> <<>>,
     server |-> Undefined, toolResult |-> <<>>, candidates |-> -1,
     followUpCandidates |-> -1, followUpParts |-> <<>>,
     returned |-> <<>>, error |-> <<>>, log |-> <<>>]

NoDocument == [kind |-> "absent", mcpServers |-> <<>>]

\* Lines 103-109: a Client on which connect(transport) was called and has
\* not settled.
NewClient == [link |-> "connecting", closeCalls |-> 0]

\* cleanup has not been called.
NoCleanup == [pc |-> "idle", targets |-> <<>>, closes |-> <<>>, error |-> <<>>]

\* ------------------------------------------------------------------ Init
Init ==
    /\ mcpConnections = <<>>
    /\ config = NoDocument
    /\ connectState = "idle"
    /\ connectError = <<>>
    /\ serverEntries = <<>>
    /\ attempts = <<>>
    /\ pq = [q \in QueryIds |-> IdleQuery]
    /\ clients = <<>>
    /\ cleanupCall = NoCleanup
    /\ received = [q \in QueryIds |-> <<>>]

\* ------------------------------------------------------- connectToServers
\* Lines 53-64: load the config and start one attempt per entry.  Each
\* attempt runs getConnectionServer up to its await of listTools: it
\* creates the transport and the client, calls client.connect(transport)
\* without awaiting it (line 109) and calls client.listTools() (line 112).
connectToServers(doc) ==
    /\ connectState = "idle"
    /\ config' = doc
    /\ IF loadServerConfig(doc) # <<>>
       THEN /\ connectState' = "failed"
            /\ connectError' = <<"Failed to connect to MCP servers: ">>
                                  \o ErrorOf(loadServerConfig(doc))
            /\ serverEntries' = <<>>
            /\ attempts' = <<>>
            /\ clients' = <<>>
       ELSE /\ connectState' = "running"
            /\ connectError' = <<>>
            /\ serverEntries' = ObjectEntries(doc.mcpServers)
            /\ attempts' = [k \in 1..Len(doc.mcpServers) |->
                              [state |-> "pending", value |-> NoConnection,
                               reason |-> <<>>, settledAt |-> 0]]
            /\ clients' = [k \in 1..Len(doc.mcpServers) |-> NewClient]
    /\ UNCHANGED <<mcpConnections, pq, cleanupCall, received>>

\* Lines 66-76 with Promise.allSettled: wait for every attempt, keep the
\* connections of those that succeeded.
AfterPromiseAll_AllSettled(ps) ==
    IF \E k \in DOMAIN ps : ps[k].state = "pending"
    THEN [state |-> "running", conns |-> mcpConnections, error |-> <<>>]
    ELSE LET conns == FilterConnections(PromiseAllValues(ps))
         IN  IF Len(conns) = 0
             THEN [state |-> "failed", conns |-> conns,
                   error |-> <<"Failed to connect to MCP servers: ">>
                               \o ErrorOf(<<"Failed to connect to any MCP servers">>)]
             ELSE [state |-> "connected", conns |-> conns, error |-> <<>>]

\* Lines 66-76, run when Promise.all settles.
AfterPromiseAll(ps) ==
    IF \E k \in DOMAIN ps : ps[k].state = "rejected"
    THEN LET first == CHOOSE k \in DOMAIN ps : ps[k].state = "rejected"
         IN  [state |-> "failed", conns |-> mcpConnections,
              error |-> <<"Failed to connect to MCP servers: ">> \o ErrorOf(ps[first].reason)]
    ELSE IF \A k \in DOMAIN ps : ps[k].state = "fulfilled"
    THEN LET conns == FilterConnections(PromiseAllValues(ps))
         IN  IF Len(conns) = 0
             THEN [state |-> "failed", conns |-> conns,
                   error |-> <<"Failed to connect to MCP servers: ">>
                               \o ErrorOf(<<"Failed to connect to any MCP servers">>)]
             ELSE [state |-> "connected", conns |-> conns, error |-> <<>>]
    ELSE [state |-> "running", conns |-> mcpConnections, error |-> <<>>]

\* The number of settled promises of ps.
Settled(ps) == Cardinality({k \in DOMAIN ps : ps[k].state # "pending"})

Settle(i, settled) ==
    /\ i \in DOMAIN attempts
    /\ attempts[i].state = "pending"
    /\ attempts' = [attempts EXCEPT ![i] =
                      [state |-> settled.state, value |-> settled.value,
                       reason |-> settled.reason,
                       settledAt |-> Settled(attempts) + 1]]
    /\ IF connectState = "running"
       THEN LET after == AfterPromiseAll(attempts')
            IN  /\ connectState' = after.state
                /\ mcpConnections' = after.conns
                /\ connectError' = after.error
       ELSE UNCHANGED <<connectState, mcpConnections, connectError>>
    /\ UNCHANGED <<config, serverEntries, pq, clients, cleanupCall, received>>

\* Line 109: the promise of client.connect(transport), which nothing
\* awaits, fulfils: the link of attempt i's client is established.
ClientConnectFulfilled(i) ==
    /\ i \in DOMAIN clients
    /\ clients[i].link = "connecting"
    /\ clients' = [clients EXCEPT ![i].link = "established"]
    /\ UNCHANGED <<connectVars, pq, cleanupCall, received>>

\* Line 109: the promise of client.connect(transport) rejects.  Nothing
\* awaits it and it has no catch: no code of the attempt runs.
ClientConnectRejected(i) ==
    /\ i \in DOMAIN clients
    /\ clients[i].link = "connecting"
    /\ clients' = [clients EXCEPT ![i].link = "failed"]
    /\ UNCHANGED <<connectVars, pq, cleanupCall, received>>

\* listTools of attempt i answers: getConnectionServer returns (line 122).
\* A client whose connect has failed gets no answer any more.
ListToolsFulfilled(i, listed) ==
    /\ i \in DOMAIN clients
    /\ clients[i].link # "failed"
    /\ Settle(i, [state |-> "fulfilled",
                  value |-> ToConnection(serverEntries[i], listed),
                  reason |-> <<>>])

\* The catch of lines 61-63 returning null instead of throwing.
ListToolsRejected_ReturnsNull(i, e) ==
    Settle(i, [state |-> "fulfilled", value |-> NoConnection, reason |-> <<>>])

\* listTools of attempt i fails: the attempt rejects (lines 61-63).
ListToolsRejected(i, e) ==
    Settle(i, [state |-> "rejected", value |-> NoConnection,
               reason |-> <<"Failed to connect to server ", serverEntries[i], ": ">>
                            \o ErrorOf(<<e>>)])

\* ----------------------------------------------------------- processQuery
\* Lines 146-148 without the delete of line 148.
CleanSchema_KeepsAdditionalProperties(schema) ==
    [k \in DOMAIN schema \ {"$schema"} |-> schema[k]]

\* Lines 146-148: a copy of the schema without the two unsupported fields.
CleanSchema(schema) ==
    [k \in DOMAIN schema \ {"$schema", "additionalProperties"} |-> schema[k]]

\* Lines 150-154.
FunctionDeclaration(tool) ==
    [name |-> tool.name, description |-> tool.description,
     parameters |-> CleanSchema(tool.input_schema)]

\* Lines 141-155.
functionDeclarations(conns) ==
    LET allTools == getAllTools(conns)
    IN  [k \in DOMAIN allTools |-> FunctionDeclaration(allTools[k])]

\* model.generateContent was called, with or without tool declarations.
GenerateEvent(hasTools, decls) ==
    [op |-> "generateContent", hasTools |-> hasTools, tools |-> decls,
     server |-> Undefined, name |-> Undefined]

\* serverConnection.client.callTool was called.
CallToolEvent(server, toolName) ==
    [op |-> "callTool", hasTools |-> FALSE, tools |-> <<>>,
     server |-> server, name |-> toolName]

NoResponseText == <<"No response received from Gemini">>

RephraseFallback ==
    <<"The request could not be processed. Please try rephrasing your question.">>

\* `Tool result: ${toolResult}`
ToolResultText(content) == <<"Tool result: ">> \o content

\* finalText.join("\n")
RECURSIVE Join(_)
Join(fragments) ==
    IF Len(fragments) = 0 THEN <<>>
    ELSE IF Len(fragments) = 1 THEN fragments[1]
    ELSE fragments[1] \o <<"\n">> \o Join(Tail(fragments))

\* Lines 237-242 without the check of line 238.
Finish_NoFallback(finalText) == Join(finalText)

\* Lines 237-242.
Finish(finalText) ==
    Join(IF Len(finalText) = 0 THEN <<RephraseFallback>> ELSE finalText)

\* Line 228.
ToolError(toolName, cause) ==
    <<"Error executing tool ", toolName, ": ">> \o ErrorOf(cause)

\* Line 244.
QueryError(cause) == <<"Error processing query: ">> \o ErrorOf(cause)

\* Lines 181-199 with a missing tool skipped instead of thrown.
RECURSIVE RunParts_SkipUnknown(_, _, _, _)
RunParts_SkipUnknown(conns, parts, i, finalText) ==
    IF i > Len(parts)
    THEN [pc |-> "finish", idx |-> i, finalText |-> finalText,
          server |-> Undefined, error |-> <<>>]
    ELSE IF parts[i].text # <<>>
    THEN RunParts_SkipUnknown(conns, parts, i + 1, Append(finalText, parts[i].text))
    ELSE IF parts[i].functionCall # Undefined
              /\ findToolServer(conns, parts[i].functionCall).serverName # Undefined
    THEN [pc |-> "awaitTool", idx |-> i, finalText |-> finalText,
          server |-> findToolServer(conns, parts[i].functionCall).serverName,
          error |-> <<>>]
    ELSE RunParts_SkipUnknown(conns, parts, i + 1, finalText)

\* Lines 181-199: the loop over the parts from part i on, up to the first
\* await of callTool, a throw, or the end of the parts.
RECURSIVE RunParts(_, _, _, _)
RunParts(conns, parts, i, finalText) ==
    IF i > Len(parts)
    THEN [pc |-> "finish", idx |-> i, finalText |-> finalText,
          server |-> Undefined, error |-> <<>>]
    ELSE IF parts[i].text # <<>>
    THEN RunParts(conns, parts, i + 1, Append(finalText, parts[i].text))
    ELSE IF parts[i].functionCall # Undefined
    THEN LET toolName == parts[i].functionCall
             serverConnection == findToolServer(conns, toolName)
         IN  IF serverConnection = NoConnection
             THEN [pc |-> "threw", idx |-> i, finalText |-> finalText,
                   server |-> Undefined,
                   error |-> ToolError(toolName,
                               <<"Tool ", toolName, " not found in any connected server">>)]
             ELSE [pc |-> "awaitTool", idx |-> i, finalText |-> finalText,
                   server |-> serverConnection.serverName, error |-> <<>>]
    ELSE RunParts(conns, parts, i + 1, finalText)

\* Lines 178 and 214: whether the response has a first candidate.
HasCandidate(response) == response.hasCandidates /\ Len(response.candidates) > 0

\* Lines 179-181 and 215-217: the parts the loop runs over.
FirstParts(response) ==
    IF HasCandidate(response) /\ response.candidates[1].hasParts
    THEN response.candidates[1].parts ELSE <<>>

\* The invocation runs the loop from part i on and suspends, throws or
\* returns.  followUp is the latest follow-up response, if there was one.
Continue(q, followUp, parts, i, finalText) ==
    LET r == RunParts(mcpConnections, parts, i, finalText)
    IN  pq' = [pq EXCEPT ![q] =
          CASE r.pc = "awaitTool" ->
                 [@ EXCEPT !.pc = "awaitTool", !.parts = parts, !.idx = r.idx,
                           !.finalText = r.finalText, !.server = r.server,
                           !.candidates = 1,
                           !.followUpCandidates =
                               IF Len(followUp) = 0 THEN -1
                               ELSE IF HasCandidate(followUp[1]) THEN 1 ELSE 0,
                           !.followUpParts =
                               IF Len(followUp) = 0 THEN <<>> ELSE FirstParts(followUp[1]),
                           !.log = Append(@, CallToolEvent(r.server, parts[r.idx].functionCall))]
            [] r.pc = "threw" ->
                 [@ EXCEPT !.pc = "threw", !.parts = parts, !.idx = r.idx,
                           !.finalText = r.finalText,
                           !.candidates = 1,
                           !.followUpCandidates =
                               IF Len(followUp) = 0 THEN -1
                               ELSE IF HasCandidate(followUp[1]) THEN 1 ELSE 0,
                           !.followUpParts =
                               IF Len(followUp) = 0 THEN <<>> ELSE FirstParts(followUp[1]),
                           !.error = QueryError(r.error)]
            [] OTHER ->
                 [@ EXCEPT !.pc = "returned", !.parts = parts, !.idx = r.idx,
                           !.finalText = r.finalText,
                           !.candidates = 1,
                           !.followUpCandidates =
                               IF Len(followUp) = 0 THEN -1
                               ELSE IF HasCandidate(followUp[1]) THEN 1 ELSE 0,
                           !.followUpParts =
                               IF Len(followUp) = 0 THEN <<>> ELSE FirstParts(followUp[1]),
                           !.returned = Finish(r.finalText)]]

\* Lines 137-172 with the deletes of lines 147-148 done on tool.input_schema
\* itself instead of on the copy of line 146.
processQuery_CleansInPlace(q) ==
    /\ pq[q].pc = "idle"
    /\ pq' = [pq EXCEPT ![q].pc = "awaitInitial",
                        ![q].log = <<GenerateEvent(TRUE, functionDeclarations(mcpConnections))>>]
    /\ mcpConnections' =
         [k \in DOMAIN mcpConnections |->
            [mcpConnections[k] EXCEPT !.tools =
               [j \in DOMAIN @ |-> [@[j] EXCEPT !.input_schema = CleanSchema(@)]]]]
    /\ UNCHANGED <<config, connectState, connectError, serverEntries, attempts,
                   clients, cleanupCall>>

\* Lines 137-172: up to the await of the initial generateContent.
processQuery(q) ==
    /\ pq[q].pc = "idle"
    /\ pq' = [pq EXCEPT ![q].pc = "awaitInitial",
                        ![q].log = <<GenerateEvent(TRUE, functionDeclarations(mcpConnections))>>]
    /\ UNCHANGED <<connectVars, clients, cleanupCall>>

\* Lines 174-242 without the else of lines 233-235.
InitialResponse_NoElse(q, response) ==
    /\ pq[q].pc = "awaitInitial"
    /\ IF HasCandidate(response)
       THEN Continue(q, <<>>, FirstParts(response), 1, <<>>)
       ELSE pq' = [pq EXCEPT ![q].pc = "returned",
                             ![q].candidates = 0,
                             ![q].returned = Finish(<<>>)]
    /\ UNCHANGED <<connectVars, clients, cleanupCall>>

\* Lines 174-199 and 233-242: the initial response arrives.
InitialResponse(q, response) ==
    /\ pq[q].pc = "awaitInitial"
    /\ IF HasCandidate(response)
       THEN Continue(q, <<>>, FirstParts(response), 1, <<>>)
       ELSE pq' = [pq EXCEPT ![q].pc = "returned",
                             ![q].candidates = 0,
                             ![q].finalText = <<NoResponseText>>,
                             ![q].returned = Finish(<<NoResponseText>>)]
    /\ UNCHANGED <<connectVars, clients, cleanupCall>>

\* Lines 168 and 243-245: the initial generateContent fails.
InitialFailure(q, e) ==
    /\ pq[q].pc = "awaitInitial"
    /\ pq' = [pq EXCEPT ![q].pc = "threw", ![q].error = QueryError(<<e>>)]
    /\ UNCHANGED <<connectVars, clients, cleanupCall>>

\* Lines 196-211 with the follow-up turn given the tool declarations.
ToolResult_WithTools(q, content) ==
    /\ pq[q].pc = "awaitTool"
    /\ pq' = [pq EXCEPT ![q].pc = "awaitFollowUp",
                        ![q].toolResult = content,
                        ![q].log = Append(@, GenerateEvent(TRUE, functionDeclarations(mcpConnections)))]
    /\ UNCHANGED <<connectVars, clients, cleanupCall>>

\* Lines 196-211: callTool answers; the follow-up turn is submitted.
ToolResult(q, content) ==
    /\ pq[q].pc = "awaitTool"
    /\ pq' = [pq EXCEPT ![q].pc = "awaitFollowUp",
                        ![q].toolResult = content,
                        ![q].log = Append(@, GenerateEvent(FALSE, <<>>))]
    /\ UNCHANGED <<connectVars, clients, cleanupCall>>

\* Lines 196 and 227-229: callTool fails.
ToolFailure(q, e) ==
    /\ pq[q].pc = "awaitTool"
    /\ pq' = [pq EXCEPT ![q].pc = "threw",
                        ![q].error = QueryError(ToolError(pq[q].parts[pq[q].idx].functionCall, <<e>>))]
    /\ UNCHANGED <<connectVars, clients, cleanupCall>>

\* Lines 217-221: the texts a follow-up candidate adds to finalText.
FollowUpTexts(parts) ==
    LET kept == SelectSeq(parts, LAMBDA part : part.text # <<>>)
    IN  [k \in DOMAIN kept |-> kept[k].text]

\* Lines 213-226 with unshift in place of push.
AfterFollowUp_Prepends(finalText, response, toolResult) ==
    IF HasCandidate(response)
    THEN FollowUpTexts(FirstParts(response)) \o finalText
    ELSE <<ToolResultText(toolResult)>> \o finalText

\* Lines 213-226 with the fallback taken whenever the follow-up gave no text.
AfterFollowUp_FallbackWhenNoText(finalText, response, toolResult) ==
    IF HasCandidate(response) /\ Len(FollowUpTexts(FirstParts(response))) > 0
    THEN finalText \o FollowUpTexts(FirstParts(response))
    ELSE Append(finalText, ToolResultText(toolResult))

\* Lines 213-226: what the follow-up response adds to finalText.
AfterFollowUp(finalText, response, toolResult) ==
    IF HasCandidate(response)
    THEN finalText \o FollowUpTexts(FirstParts(response))
    ELSE Append(finalText, ToolResultText(toolResult))

\* Lines 213-242 with finalText a field of the client, which the running
\* invocations share, instead of a local of the invocation.
FollowUpResponse_SharedFinalText(q, response) ==
    /\ pq[q].pc = "awaitFollowUp"
    /\ LET latest == CHOOSE p \in QueryIds :
                       \A o \in QueryIds : Len(pq[p].log) >= Len(pq[o].log)
       IN  Continue(q, <<response>>, pq[q].parts, pq[q].idx + 1,
                    AfterFollowUp(pq[latest].finalText, response, pq[q].toolResult))
    /\ UNCHANGED <<connectVars, clients, cleanupCall>>

\* Lines 213-242: the follow-up response arrives; the loop goes on.
FollowUpResponse(q, response) ==
    /\ pq[q].pc = "awaitFollowUp"
    /\ Continue(q, <<response>>, pq[q].parts, pq[q].idx + 1,
                AfterFollowUp(pq[q].finalText, response, pq[q].toolResult))
    /\ UNCHANGED <<connectVars, clients, cleanupCall>>

\* Lines 208 and 227-229: the follow-up generateContent fails.
FollowUpFailure(q, e) ==
    /\ pq[q].pc = "awaitFollowUp"
    /\ pq' = [pq EXCEPT ![q].pc = "threw",
                        ![q].error = QueryError(ToolError(pq[q].parts[pq[q].idx].functionCall, <<e>>))]
    /\ UNCHANGED <<connectVars, clients, cleanupCall>>

\* ---------------------------------------------------------------- cleanup
CloseErrors == {"write EPIPE"}

\* The client of a connection: the one the attempt for its entry created.
ClientOf(connection) ==
    CHOOSE k \in DOMAIN serverEntries : serverEntries[k] = connection.serverName

\* A loop that awaits each close before it starts the next: when cleanup
\* first suspends only the first close has been called.
ClosesStarted_OneAtATime(conns) == {j \in DOMAIN conns : j = 1}

\* Lines 297-303: map runs every callback up to its await, so close() has
\* been called for every connection when cleanup first suspends.
ClosesStarted(conns) == DOMAIN conns

\* Line 305: Promise.all over the cleanupPromises, when one of them settles.
AfterCloseAll(call, closes) ==
    IF call.pc # "running" THEN [pc |-> call.pc, error |-> call.error]
    ELSE IF \E j \in DOMAIN closes : closes[j].state = "rejected"
    THEN LET first == CHOOSE j \in DOMAIN closes : closes[j].state = "rejected"
         IN  [pc |-> "failed", error |-> closes[first].reason]
    ELSE IF \A j \in DOMAIN closes : closes[j].state = "fulfilled"
    THEN [pc |-> "done", error |-> <<>>]
    ELSE [pc |-> "running", error |-> <<>>]

\* Lines 292-305: cleanup is called, by a caller that has awaited
\* connectToServers; close() is called on the client of the connections.
cleanup ==
    /\ cleanupCall.pc = "idle"
    /\ connectState # "running"
    /\ LET started == ClosesStarted(mcpConnections)
           targets == [j \in DOMAIN mcpConnections |-> ClientOf(mcpConnections[j])]
           closes == [j \in DOMAIN mcpConnections |->
                        [state |-> IF j \in started THEN "pending" ELSE "unstarted",
                         reason |-> <<>>]]
       IN  /\ clients' = [k \in DOMAIN clients |->
                            IF \E j \in started : targets[j] = k
                            THEN [clients[k] EXCEPT !.closeCalls = @ + 1]
                            ELSE clients[k]]
           /\ cleanupCall' = [pc |-> IF Len(mcpConnections) = 0 THEN "done" ELSE "running",
                              targets |-> targets, closes |-> closes, error |-> <<>>]
    /\ UNCHANGED <<connectVars, pq, received>>

\* Line 299: close() of connection j is done; the client is closed.
CloseFulfilled(j) ==
    /\ j \in DOMAIN cleanupCall.closes
    /\ cleanupCall.closes[j].state = "pending"
    /\ LET closes == [cleanupCall.closes EXCEPT ![j].state = "fulfilled"]
           after == AfterCloseAll(cleanupCall, closes)
       IN  cleanupCall' = [cleanupCall EXCEPT !.closes = closes, !.pc = after.pc,
                                              !.error = after.error]
    /\ clients' = [clients EXCEPT ![cleanupCall.targets[j]].link = "closed"]
    /\ UNCHANGED <<connectVars, pq, received>>

\* Lines 299-302: close() of connection j fails; its promise rejects.
CloseRejected(j, e) ==
    /\ j \in DOMAIN cleanupCall.closes
    /\ cleanupCall.closes[j].state = "pending"
    /\ LET reason == <<"Error closing connection to server ",
                       mcpConnections[j].serverName, ": ">> \o ErrorOf(<<e>>)
           closes == [cleanupCall.closes EXCEPT ![j] =
                        [state |-> "rejected", reason |-> reason]]
           after == AfterCloseAll(cleanupCall, closes)
       IN  cleanupCall' = [cleanupCall EXCEPT !.closes = closes, !.pc = after.pc,
                                              !.error = after.error]
    /\ UNCHANGED <<connectVars, pq, clients, received>>

\* ------------------------------------------------------------------ specs
\* connectToServers and cleanup.  The promise of client.connect, which
\* neither looks at, settles in SpecAttempt.
Next ==
    \/ \E doc \in ConfigDocs : connectToServers(doc)
    \/ \E i \in 1..(MaxServers + 1), listed \in ToolLists : ListToolsFulfilled(i, listed)
    \/ \E i \in 1..(MaxServers + 1), e \in ListErrors : ListToolsRejected(i, e)
    \/ cleanup
    \/ \E j \in 1..MaxServers : CloseFulfilled(j)
    \/ \E j \in 1..MaxServers, e \in CloseErrors : CloseRejected(j, e)

Spec == Init /\ [][Next]_vars

\* The connection attempts alone, with the settling of the promise that
\* client.connect returns and that no code of the attempt looks at.
NextAttempt ==
    \/ \E doc \in ConfigDocs : connectToServers(doc)
    \/ \E i \in 1..(MaxServers + 1) : ClientConnectFulfilled(i)
    \/ \E i \in 1..(MaxServers + 1) : ClientConnectRejected(i)
    \/ \E i \in 1..(MaxServers + 1), listed \in ToolLists : ListToolsFulfilled(i, listed)
    \/ \E i \in 1..(MaxServers + 1), e \in ListErrors : ListToolsRejected(i, e)

SpecAttempt == Init /\ [][NextAttempt]_vars

\* The registries a client that answers queries may hold: none yet, or what
\* a successful connectToServers left.
RawTool(toolName) == CHOOSE r \in RawTools : r.name = toolName

\* no provider; one provider with ping; two providers that both list ping,
\* the second also getForecast.
QueryRegistries ==
    { [entries |-> <<>>, listed |-> <<>>],
      [entries |-> <<"weather">>, listed |-> << <<RawTool("ping")>> >>],
      [entries |-> <<"9", "weather">>,
       listed |-> << <<RawTool("ping")>>, <<RawTool("ping"), RawTool("getForecast")>> >>] }

InitQuery ==
    \E registry \in QueryRegistries :
      LET entries == registry.entries
          listed == registry.listed
      IN
        /\ mcpConnections = [k \in DOMAIN entries |-> ToConnection(entries[k], listed[k])]
        /\ config = IF Len(entries) = 0 THEN NoDocument
                    ELSE [kind |-> "servers", mcpServers |-> entries]
        /\ connectState = IF Len(entries) = 0 THEN "idle" ELSE "connected"
        /\ connectError = <<>>
        /\ serverEntries = entries
        /\ attempts = [k \in DOMAIN entries |->
                          [state |-> "fulfilled",
                           value |-> ToConnection(entries[k], listed[k]),
                           reason |-> <<>>, settledAt |-> k]]
        /\ pq = [q \in QueryIds |-> IdleQuery]
        /\ clients = [k \in DOMAIN entries |-> [link |-> "established", closeCalls |-> 0]]
        /\ cleanupCall = NoCleanup
        /\ received = [q \in QueryIds |-> <<>>]

\* The history of answers is kept in SpecConcurrent only.
NextQuery ==
    \/ processQuery(1) /\ UNCHANGED received
    \/ \E response \in Responses(Parts, MaxParts) :
         InitialResponse(1, response) /\ UNCHANGED received
    \/ \E e \in ModelErrors : InitialFailure(1, e) /\ UNCHANGED received
    \/ \E content \in ToolContents : ToolResult(1, content) /\ UNCHANGED received
    \/ \E e \in ToolErrors : ToolFailure(1, e) /\ UNCHANGED received
    \/ \E response \in Responses(FollowUpParts, MaxFollowUpParts) :
         FollowUpResponse(1, response) /\ UNCHANGED received
    \/ \E e \in ModelErrors : FollowUpFailure(1, e) /\ UNCHANGED received

SpecQuery == InitQuery /\ [][NextQuery]_vars

\* A client on which cleanup is called and which is queried once cleanup
\* has returned or thrown and every close has settled.  A closed client
\* answers no callTool.  The responses are one part shorter than in SpecQuery.
NextAfterCleanup ==
    \/ cleanup
    \/ \E j \in 1..MaxServers : CloseFulfilled(j)
    \/ \E j \in 1..MaxServers, e \in CloseErrors : CloseRejected(j, e)
    \/ /\ cleanupCall.pc \in {"done", "failed"}
       /\ \A j \in DOMAIN cleanupCall.closes : cleanupCall.closes[j].state # "pending"
       /\ processQuery(1) /\ UNCHANGED received
    \/ \E response \in Responses(Parts, MaxParts - 1) :
         InitialResponse(1, response) /\ UNCHANGED received
    \/ \E e \in ModelErrors : InitialFailure(1, e) /\ UNCHANGED received
    \/ \E content \in ToolContents :
         /\ pq[1].pc = "awaitTool"
         /\ clients[ClientOf([serverName |-> pq[1].server])].link # "closed"
         /\ ToolResult(1, content) /\ UNCHANGED received
    \/ \E e \in ToolErrors : ToolFailure(1, e) /\ UNCHANGED received
    \/ \E response \in Responses(FollowUpParts, MaxFollowUpParts - 1) :
         FollowUpResponse(1, response) /\ UNCHANGED received
    \/ \E e \in ModelErrors : FollowUpFailure(1, e) /\ UNCHANGED received

SpecAfterCleanup == InitQuery /\ [][NextAfterCleanup]_vars

\* Several invocations of processQuery on one connected client, each
\* suspended at its awaits while the others run.
OneCandidate(parts) ==
    [hasCandidates |-> TRUE, candidates |-> <<[hasParts |-> TRUE, parts |-> parts]>>]

NoCandidates == [hasCandidates |-> TRUE, candidates |-> <<>>]

ConcurrentResponses ==
    { NoCandidates,
      OneCandidate(<<[text |-> <<"A">>, functionCall |-> Undefined],
                     [text |-> <<>>, functionCall |-> "ping"]>>),
      OneCandidate(<<[text |-> <<>>, functionCall |-> "ping"],
                     [text |-> <<>>, functionCall |-> "getForecast"]>>) }

ConcurrentFollowUps ==
    { NoCandidates, OneCandidate(<<[text |-> <<"B">>, functionCall |-> Undefined]>>) }

\* An answer given to an invocation: a response or a failure of
\* generateContent, a result or a failure of callTool.
Answer(kind, response, content, error) ==
    [kind |-> kind, response |-> response, content |-> content, error |-> error]

Receive(q, answer) == received' = [received EXCEPT ![q] = Append(@, answer)]

NextConcurrent ==
    \E q \in QueryIds :
      \/ processQuery(q) /\ UNCHANGED received
      \/ \E response \in ConcurrentResponses :
           /\ InitialResponse(q, response)
           /\ Receive(q, Answer("response", response, <<>>, Undefined))
      \/ \E e \in ModelErrors :
           /\ InitialFailure(q, e)
           /\ Receive(q, Answer("modelError", NoCandidates, <<>>, e))
      \/ \E content \in ToolContents :
           /\ ToolResult(q, content)
           /\ Receive(q, Answer("content", NoCandidates, content, Undefined))
      \/ \E e \in ToolErrors :
           /\ ToolFailure(q, e)
           /\ Receive(q, Answer("toolError", NoCandidates, <<>>, e))
      \/ \E response \in ConcurrentFollowUps :
           /\ FollowUpResponse(q, response)
           /\ Receive(q, Answer("response", response, <<>>, Undefined))
      \/ \E e \in ModelErrors :
           /\ FollowUpFailure(q, e)
           /\ Receive(q, Answer("modelError", NoCandidates, <<>>, e))

SpecConcurrent == InitQuery /\ [][NextConcurrent]_vars

\* ================================================================ claims
\* ------------------------------------------------------ connectToServers
\* The attempts of the latest call that listed a tool of this name.
Owners(toolName) ==
    {k \in DOMAIN attempts :
       \E j \in DOMAIN attempts[k].value.tools : attempts[k].value.tools[j].name = toolName}

Position(s, x) == CHOOSE k \in DOMAIN s : s[k] = x

Sum(f) ==
    LET RECURSIVE Upto(_)
        Upto(k) == IF k = 0 THEN 0 ELSE f[k] + Upto(k - 1)
    IN  Upto(Len(f))

\* Server a is enumerated before server b: array-index names first, in
\* ascending numeric order, then the other names as the document declares them.
EnumeratedBefore(a, b) ==
    IF IsArrayIndex(a) /\ IsArrayIndex(b) THEN ArrayIndex(a) < ArrayIndex(b)
    ELSE IF IsArrayIndex(a) THEN TRUE
    ELSE IF IsArrayIndex(b) THEN FALSE
    ELSE Position(config.mcpServers, a) < Position(config.mcpServers, b)

\* Server a is declared before server b in the configuration document.
DeclaredBefore(a, b) == Position(config.mcpServers, a) < Position(config.mcpServers, b)

\* C1: a connectToServers that completes leaves exactly one connection per
\* entry of the config it loaded, and mcpConnections changes only in the
\* step in which a connectToServers completes.
C1_OneConnectionPerEntry ==
    /\ [](connectState = "connected" =>
            /\ Len(mcpConnections) = Len(config.mcpServers)
            /\ \A n \in Range(config.mcpServers) :
                 Cardinality({k \in DOMAIN mcpConnections :
                                mcpConnections[k].serverName = n}) = 1)
    /\ [][mcpConnections' # mcpConnections => connectState' = "connected"]_vars

\* C1 witness: a call over two entries completed.
C1_Witness ==
    /\ connectState = "connected"
    /\ Len(config.mcpServers) >= 2
    /\ Len(mcpConnections) >= 2

\* C2: once an attempt has failed, the call fails, its error names a server
\* whose attempt failed, and no step of a failing or failed call changes
\* mcpConnections.
C2_FailsAsAWhole ==
    /\ []((connectState # "running" /\ \E k \in DOMAIN attempts : attempts[k].state = "rejected") =>
            /\ connectState = "failed"
            /\ \E k \in DOMAIN attempts :
                 /\ attempts[k].state = "rejected"
                 /\ serverEntries[k] \in Range(connectError))
    /\ [][connectState' # "connected" => mcpConnections' = mcpConnections]_vars

\* C2 witness: one attempt succeeded, another failed, and the call failed.
C2_Witness ==
    /\ connectState = "failed"
    /\ \E j, k \in DOMAIN attempts :
         /\ attempts[j].state = "fulfilled" /\ attempts[j].settledAt = 1
         /\ Len(attempts[j].value.tools) > 0
         /\ attempts[k].state = "rejected"
         /\ serverEntries[k] \in Range(connectError)
    /\ mcpConnections = <<>>

\* C3: connectToServers has returned or failed only when no attempt is
\* still pending.
C3_WaitsForAllAttempts ==
    connectState \in {"connected", "failed"} =>
        \A k \in DOMAIN attempts : attempts[k].state # "pending"

ResolvesTo(toolName, First(_, _)) ==
    LET found == findToolServer(mcpConnections, toolName)
        owners == Owners(toolName)
    IN  IF owners = {} THEN found.serverName = Undefined
        ELSE \E k \in owners :
               /\ found = attempts[k].value
               /\ found.serverName = serverEntries[k]
               /\ \A h \in owners \ {k} : First(serverEntries[k], serverEntries[h])

IsCall(part) == part.text = <<>> /\ part.functionCall # Undefined

\* Some connection lists a tool of this name.
Exposed(toolName) ==
    \E k \in DOMAIN mcpConnections :
      \E j \in DOMAIN mcpConnections[k].tools : mcpConnections[k].tools[j].name = toolName

Contains(text, piece) ==
    \E k \in 1..(Len(text) - Len(piece) + 1) : SubSeq(text, k, k + Len(piece) - 1) = piece

Calls(log) == SelectSeq(log, LAMBDA e : e.op = "callTool")

Generates(log) == SelectSeq(log, LAMBDA e : e.op = "generateContent")

\* The non-empty texts of the parts lo..hi of parts, in order.
TextsOf(parts, lo, hi) ==
    LET kept == SelectSeq(SubSeq(parts, lo, hi), LAMBDA part : part.text # <<>>)
    IN  [k \in DOMAIN kept |-> kept[k].text]

\* C6 as claimed: an initial response without candidates makes processQuery
\* return the rephrase fallback.
C6_ReturnsRephraseFallback ==
    \A q \in QueryIds :
      pq[q].candidates = 0 =>
        /\ pq[q].pc = "returned"
        /\ pq[q].returned =
             <<"The request could not be processed. Please try rephrasing your question.">>

\* C6: an initial response without candidates makes processQuery return
\* the fixed text "No response received from Gemini", which is not empty
\* and not the rephrase fallback, without throwing and without a tool call.
C6_ReturnsNoResponseText ==
    \A q \in QueryIds :
      pq[q].candidates = 0 =>
        /\ pq[q].pc = "returned"
        /\ pq[q].returned = <<"No response received from Gemini">>
        /\ pq[q].returned # <<>>
        /\ pq[q].error = <<>>
        /\ Len(pq[q].log) = 1

\* C6 witness: an invocation returned on a response without candidates.
C6_Witness ==
    /\ pq[1].pc = "returned"
    /\ pq[1].candidates = 0
    /\ pq[1].returned = NoResponseText

\* C7: when the loop reaches a function-call part whose tool no connection
\* lists, processQuery throws there with an error that carries "Tool <name>
\* not found in any connected server", returns nothing, and has called
\* callTool and the follow-up generateContent only for the calls before it.
C7_ToolNotFound ==
    \A q \in QueryIds :
      \A i \in DOMAIN pq[q].parts :
        (i <= pq[q].idx /\ IsCall(pq[q].parts[i]) /\ ~Exposed(pq[q].parts[i].functionCall)) =>
          LET toolName == pq[q].parts[i].functionCall
              before == Cardinality({k \in 1..(i - 1) : IsCall(pq[q].parts[k])})
          IN  /\ pq[q].pc = "threw"
              /\ pq[q].idx = i
              /\ pq[q].returned = <<>>
              /\ Contains(pq[q].error,
                          <<"Tool ", toolName, " not found in any connected server">>)
              /\ Len(Calls(pq[q].log)) = before
              /\ Len(Generates(pq[q].log)) = before + 1

\* C7 witness: text was buffered, a tool was called, and then a call named
\* a tool nobody lists.
C7_Witness ==
    /\ pq[1].pc = "threw"
    /\ pq[1].finalText # <<>>
    /\ pq[1].idx \in DOMAIN pq[1].parts
    /\ IsCall(pq[1].parts[pq[1].idx])
    /\ ~Exposed(pq[1].parts[pq[1].idx].functionCall)
    /\ Len(Calls(pq[1].log)) = 1

\* C8: in the step in which a follow-up response is taken in, what is
\* appended to finalText for it is the "Tool result: ..." fragment alone if
\* the response has no candidates, and otherwise the non-empty texts of the
\* parts of its first candidate, in order, and not that fragment.
C8_FallbackIffNoCandidates ==
    [][\A q \in QueryIds :
         (pq[q].pc = "awaitFollowUp" /\ pq'[q].idx > pq[q].idx) =>
           LET old == pq[q].finalText
               new == pq'[q].finalText
               after == TextsOf(pq[q].parts, pq[q].idx + 1, pq'[q].idx - 1)
               appended == SubSeq(new, Len(old) + 1, Len(new) - Len(after))
               raw == <<"Tool result: ">> \o pq[q].toolResult
           IN  /\ SubSeq(new, 1, Len(old)) = old
               /\ (raw \in Range(appended)) <=> (pq'[q].followUpCandidates = 0)
               /\ pq'[q].followUpCandidates = 0 => appended = <<raw>>
               /\ pq'[q].followUpCandidates # 0 =>
                    appended = TextsOf(pq'[q].followUpParts, 1, Len(pq'[q].followUpParts))
    ]_vars

\* C8 witness: a first follow-up had no candidates, a second one had a
\* candidate with two different texts.
C8_Witness ==
    /\ pq[1].pc = "returned"
    /\ Len(Calls(pq[1].log)) = 2
    /\ pq[1].followUpCandidates = 1
    /\ pq[1].finalText = <<ToolResultText(<<"[object Object]">>), <<"A">>, <<"B">>>>

\* C9: what processQuery returns is never the empty string, and when no
\* fragment was buffered it is the rephrase fallback.
C9_NeverEmpty ==
    \A q \in QueryIds :
      pq[q].pc = "returned" =>
        /\ pq[q].returned # <<>>
        /\ pq[q].finalText = <<>> =>
             pq[q].returned =
               <<"The request could not be processed. Please try rephrasing your question.">>

\* C9 witness: a tool was called, the follow-up candidate had a part
\* without text, nothing was buffered, and the fallback was returned.
C9_Witness ==
    /\ pq[1].pc = "returned"
    /\ pq[1].finalText = <<>>
    /\ pq[1].followUpCandidates = 1
    /\ Len(pq[1].followUpParts) > 0
    /\ pq[1].returned = RephraseFallback

\* C10: only the first generateContent of an invocation carries tool
\* declarations; the callTool calls are, in order, those of the
\* function-call parts of the initial candidate that the loop has reached,
\* one each; every later generateContent directly follows a callTool.
C10_OneLevelOfToolCalls ==
    \A q \in QueryIds :
      LET log == pq[q].log
          calls == Calls(log)
          last == IF pq[q].idx > Len(pq[q].parts) THEN Len(pq[q].parts) ELSE pq[q].idx
          reached == SelectSeq(SubSeq(pq[q].parts, 1, last), IsCall)
      IN  /\ \A k \in DOMAIN log :
               /\ k = 1 => (log[k].op = "generateContent" /\ log[k].hasTools)
               /\ (k > 1 /\ log[k].op = "generateContent") =>
                    (~log[k].hasTools /\ log[k].tools = <<>> /\ log[k - 1].op = "callTool")
          /\ Len(calls) <= Len(SelectSeq(pq[q].parts, IsCall))
          /\ Len(calls) <= Len(reached)
          /\ \A k \in DOMAIN calls : calls[k].name = reached[k].functionCall

\* C10 witness: the follow-up response asked for a tool again and the
\* invocation returned after its single callTool.
C10_Witness ==
    /\ pq[1].pc = "returned"
    /\ \E k \in DOMAIN pq[1].followUpParts : IsCall(pq[1].followUpParts[k])
    /\ Len(Calls(pq[1].log)) = 1
    /\ Len(Generates(pq[1].log)) = 2

\* ---------------------------------------------------------------- cleanup
\* C11: the step in which cleanup is called calls close() once on the
\* client of every connection of the registry, before any close has
\* settled, so that no failing close can keep another from being called;
\* no later step takes a close call back; and when a close has failed,
\* cleanup fails with an error that names a server whose close failed.
C11_ClosesEveryConnection ==
    /\ [][(cleanupCall.pc = "idle" /\ cleanupCall'.pc # "idle") =>
            \A j \in DOMAIN mcpConnections :
              clients'[ClientOf(mcpConnections[j])].closeCalls
                  = clients[ClientOf(mcpConnections[j])].closeCalls + 1]_vars
    /\ [][\A k \in DOMAIN clients :
            k \in DOMAIN clients' /\ clients'[k].closeCalls >= clients[k].closeCalls]_vars
    /\ []((\E j \in DOMAIN cleanupCall.closes : cleanupCall.closes[j].state = "rejected") =>
            /\ cleanupCall.pc = "failed"
            /\ \E j \in DOMAIN cleanupCall.closes :
                 /\ cleanupCall.closes[j].state = "rejected"
                 /\ Contains(cleanupCall.error,
                             <<"Error closing connection to server ",
                               mcpConnections[j].serverName, ": ">>))

\* C11 witness: of two connections the close of the first failed, cleanup
\* failed naming it, and the close of the second was called and went through.
C11_Witness ==
    /\ Len(mcpConnections) = 2
    /\ cleanupCall.pc = "failed"
    /\ cleanupCall.closes[1].state = "rejected"
    /\ cleanupCall.closes[2].state = "fulfilled"
    /\ mcpConnections[1].serverName \in Range(cleanupCall.error)
    /\ clients[ClientOf(mcpConnections[2])].closeCalls = 1
    /\ clients[ClientOf(mcpConnections[2])].link = "closed"

\* ------------------------------------------------- function declarations
\* C12: the declarations processQuery hands to the model are one per tool
\* of getAllTools, in order, each with the name and the description of its
\* tool; its parameters have neither "$schema" nor "additionalProperties"
\* and otherwise exactly the top-level fields of the tool's input schema
\* with their values; building the declarations again gives the same.
C12_FunctionDeclarations ==
    \A q \in QueryIds :
      Len(pq[q].log) > 0 =>
        LET decls == pq[q].log[1].tools
            all == getAllTools(mcpConnections)
        IN  /\ Len(decls) = Len(all)
            /\ \A k \in DOMAIN all :
                 /\ decls[k].name = all[k].name
                 /\ decls[k].description = all[k].description
                 /\ "$schema" \notin DOMAIN decls[k].parameters
                 /\ "additionalProperties" \notin DOMAIN decls[k].parameters
                 /\ DOMAIN decls[k].parameters \subseteq DOMAIN all[k].input_schema
                 /\ \A f \in DOMAIN all[k].input_schema \ {"$schema", "additionalProperties"} :
                      /\ f \in DOMAIN decls[k].parameters
                      /\ decls[k].parameters[f] = all[k].input_schema[f]
            /\ functionDeclarations(mcpConnections) = decls

\* C12 witness: declarations were built for a tool whose input schema has
\* "$schema", "additionalProperties" and "type", and for one that has
\* neither of the first two.
C12_Witness ==
    /\ Len(pq[1].log) > 0
    /\ LET all == getAllTools(mcpConnections)
           decls == pq[1].log[1].tools
       IN  /\ \E k \in DOMAIN all :
                /\ {"$schema", "additionalProperties", "type"} \subseteq DOMAIN all[k].input_schema
                /\ DOMAIN decls[k].parameters = {"type"}
           /\ \E k \in DOMAIN all :
                /\ DOMAIN all[k].input_schema = {"type", "properties"}
                /\ decls[k].parameters = all[k].input_schema

\* ---------------------------------------------------------- zero providers
\* The document parses and has no provider: mcpServers missing or empty.
ZeroProviders(doc) ==
    doc.kind = "noServers" \/ (doc.kind = "servers" /\ Len(doc.mcpServers) = 0)

\* C13: a connectToServers over a config without providers has failed when
\* it first gives up control, with the error of loadServerConfig, with no
\* attempt started: no client or transport exists, no listTools is
\* outstanding, and the registry is empty.
C13_ZeroProvidersFailFast ==
    (connectState # "idle" /\ ZeroProviders(config)) =>
        /\ connectState = "failed"
        /\ Contains(connectError, <<"No server configuration found in config file">>)
        /\ attempts = <<>>
        /\ clients = <<>>
        /\ serverEntries = <<>>
        /\ mcpConnections = <<>>

\* C13 witness: connectToServers failed on a document whose mcpServers is
\* an empty object.
C13_Witness ==
    /\ connectState = "failed"
    /\ config = [kind |-> "servers", mcpServers |-> <<>>]
    /\ clients = <<>>

\* ------------------------------------------------------------ sequencing
\* C14: within one invocation the calls alternate: a follow-up
\* generateContent is submitted only in the step in which the result of
\* the callTool before it arrives; a callTool is submitted only in the step
\* in which the initial response or the follow-up response of the previous
\* call arrives, for the leftmost function-call part not yet processed; and
\* finalText only grows at its end, by the fragments of the call just
\* completed followed by the texts of the parts up to the next call.
C14_StrictlySequential ==
    /\ [](\A q \in QueryIds :
            /\ Len(Calls(pq[q].log)) <= Len(Generates(pq[q].log))
            /\ Len(Generates(pq[q].log)) <= Len(Calls(pq[q].log)) + 1
            /\ pq[q].pc = "awaitTool" => Len(Generates(pq[q].log)) = Len(Calls(pq[q].log))
            /\ pq[q].pc = "awaitFollowUp" =>
                 Len(Generates(pq[q].log)) = Len(Calls(pq[q].log)) + 1)
    /\ [][\A q \in QueryIds :
            LET old == pq[q]
                new == pq'[q]
                after == TextsOf(new.parts, old.idx + 1, new.idx - 1)
            IN  /\ SubSeq(new.log, 1, Len(old.log)) = old.log
                /\ Len(new.log) <= Len(old.log) + 1
                /\ SubSeq(new.finalText, 1, Len(old.finalText)) = old.finalText
                /\ (Len(new.log) > Len(old.log) /\ Len(old.log) > 0
                        /\ new.log[Len(new.log)].op = "generateContent") =>
                     /\ old.pc = "awaitTool"
                     /\ new.pc = "awaitFollowUp"
                     /\ old.log[Len(old.log)].op = "callTool"
                     /\ new.idx = old.idx
                /\ (Len(new.log) > Len(old.log) /\ new.log[Len(new.log)].op = "callTool") =>
                     /\ old.pc \in {"awaitInitial", "awaitFollowUp"}
                     /\ new.pc = "awaitTool"
                     /\ old.log[Len(old.log)].op = "generateContent"
                     /\ new.idx > old.idx
                     /\ new.log[Len(new.log)].name = new.parts[new.idx].functionCall
                /\ (new.idx > old.idx /\ new.candidates = 1) =>
                     /\ old.pc = "awaitFollowUp" => new.parts = old.parts
                     /\ \A k \in (old.idx + 1)..(new.idx - 1) : ~IsCall(new.parts[k])
                     /\ Len(new.finalText) >= Len(old.finalText) + Len(after)
                     /\ SubSeq(new.finalText, Len(new.finalText) - Len(after) + 1,
                               Len(new.finalText)) = after
                     /\ old.pc = "awaitInitial" => new.finalText = after
       ]_vars

\* C14 witness: the last two parts of the response were function calls,
\* both were run, the first answered with the text "A" and the second by
\* a follow-up without candidates.
C14_Witness ==
    /\ pq[1].pc = "returned"
    /\ Len(pq[1].parts) >= 2
    /\ IsCall(pq[1].parts[Len(pq[1].parts) - 1])
    /\ IsCall(pq[1].parts[Len(pq[1].parts)])
    /\ [k \in DOMAIN pq[1].log |-> pq[1].log[k].op]
         = <<"generateContent", "callTool", "generateContent", "callTool", "generateContent">>
    /\ pq[1].finalText = <<<<"A">>, ToolResultText(<<"[object Object]">>)>>

\* ------------------------------------------------- failure classification
\* The error says that a tool failed to execute (line 228).
IsToolExecutionError(error) ==
    \E toolName \in ToolNames : Contains(error, <<"Error executing tool ", toolName, ": ">>)

\* The invocation threw while callTool was outstanding.
CallToolFailed(q) ==
    /\ pq[q].pc = "threw"
    /\ Len(pq[q].log) > 0
    /\ pq[q].log[Len(pq[q].log)].op = "callTool"

\* The invocation threw on a function call whose tool no connection lists.
ToolWasMissing(q) ==
    /\ pq[q].pc = "threw"
    /\ pq[q].idx \in DOMAIN pq[q].parts
    /\ IsCall(pq[q].parts[pq[q].idx])
    /\ ~Exposed(pq[q].parts[pq[q].idx].functionCall)

\* The invocation threw while a generateContent was outstanding.
ModelCallFailed(q) ==
    /\ pq[q].pc = "threw"
    /\ ~CallToolFailed(q)
    /\ ~ToolWasMissing(q)

\* C15: a thrown error is a tool-execution error ("Error executing tool
\* <name>: ...") exactly when callTool failed; a failed generateContent,
\* the follow-up one included, is not reported as one; a missing tool is
\* reported as not found and not as a tool-execution error.
C15_ClassifiedByCause ==
    \A q \in QueryIds :
      pq[q].pc = "threw" =>
        /\ IsToolExecutionError(pq[q].error) <=> CallToolFailed(q)
        /\ ModelCallFailed(q) => ~IsToolExecutionError(pq[q].error)
        /\ ToolWasMissing(q) =>
             /\ Contains(pq[q].error,
                         <<"Tool ", pq[q].parts[pq[q].idx].functionCall,
                           " not found in any connected server">>)
             /\ ~IsToolExecutionError(pq[q].error)

\* --------------------------------------------- cleanup after a failed connect
\* C16: no step of connectToServers closes a client; and in the step in
\* which a cleanup called after a failed connectToServers completes, the
\* client of every attempt that had succeeded is closed.
C16_CleanupAfterFailedConnect ==
    /\ [][cleanupCall' = cleanupCall =>
            \A k \in DOMAIN clients :
              /\ clients'[k].closeCalls = clients[k].closeCalls
              /\ clients'[k].link = "closed" <=> clients[k].link = "closed"]_vars
    /\ [][(connectState = "failed" /\ cleanupCall.pc # "done" /\ cleanupCall'.pc = "done") =>
            \A k \in DOMAIN attempts :
              attempts[k].state = "fulfilled" => clients'[k].link = "closed"]_vars

\* ------------------------------------------------------ queries after cleanup
\* C17: no step of a processQuery calls callTool on a client that has been
\* closed.
C17_NoCallToolOnClosedClient ==
    [][\A q \in QueryIds :
         (Len(pq'[q].log) > Len(pq[q].log)
             /\ pq'[q].log[Len(pq'[q].log)].op = "callTool") =>
           clients[ClientOf([serverName |-> pq'[q].log[Len(pq'[q].log)].server])].link
               # "closed"]_vars

\* ------------------------------------------------------ read-only registry
\* C18: no step of a processQuery changes mcpConnections; the registry
\* stays what the connect phase delivered: the same connections in the
\* same order, each with the tool list and the input schemas its provider
\* listed.
C18_RegistryReadOnly ==
    /\ [][mcpConnections' = mcpConnections]_vars
    /\ [](/\ Len(mcpConnections) = Len(attempts)
          /\ \A k \in DOMAIN mcpConnections :
               /\ mcpConnections[k].serverName = serverEntries[k]
               /\ mcpConnections[k].tools = attempts[k].value.tools)

\* C18 witness: an invocation threw because callTool failed; the schema of
\* ping in the registry still has the two fields its declaration lacks.
C18_Witness ==
    /\ CallToolFailed(1)
    /\ \E k \in DOMAIN getAllTools(mcpConnections) :
         /\ getAllTools(mcpConnections)[k].name = "ping"
         /\ {"$schema", "additionalProperties"}
               \subseteq DOMAIN getAllTools(mcpConnections)[k].input_schema
         /\ DOMAIN pq[1].log[1].tools[k].parameters = {"type"}

\* ------------------------------------------------- concurrent invocations
\* What one processQuery running alone on the registry conns makes of the
\* answers it is given (lines 168-245, read top to bottom): "returned"
\* with the text, "threw" with the error, or "suspended" at an await when
\* the answers run out.
AloneOutcome(pc, returned, error) == [pc |-> pc, returned |-> returned, error |-> error]

RECURSIVE AloneLoop(_, _, _, _, _)
AloneLoop(conns, parts, i, finalText, answers) ==
    LET r == RunParts(conns, parts, i, finalText)
    IN  IF r.pc = "finish" THEN AloneOutcome("returned", Finish(r.finalText), <<>>)
        ELSE IF r.pc = "threw" THEN AloneOutcome("threw", <<>>, QueryError(r.error))
        ELSE IF Len(answers) = 0 THEN AloneOutcome("suspended", <<>>, <<>>)
        ELSE IF answers[1].kind = "toolError"
        THEN AloneOutcome("threw", <<>>,
                          QueryError(ToolError(parts[r.idx].functionCall, <<answers[1].error>>)))
        ELSE IF Len(answers) = 1 THEN AloneOutcome("suspended", <<>>, <<>>)
        ELSE IF answers[2].kind = "modelError"
        THEN AloneOutcome("threw", <<>>,
                          QueryError(ToolError(parts[r.idx].functionCall, <<answers[2].error>>)))
        ELSE AloneLoop(conns, parts, r.idx + 1,
                       AfterFollowUp(r.finalText, answers[2].response, answers[1].content),
                       SubSeq(answers, 3, Len(answers)))

Alone(conns, answers) ==
    IF Len(answers) = 0 THEN AloneOutcome("suspended", <<>>, <<>>)
    ELSE IF answers[1].kind = "modelError"
    THEN AloneOutcome("threw", <<>>, QueryError(<<answers[1].error>>))
    ELSE IF ~HasCandidate(answers[1].response)
    THEN AloneOutcome("returned", Finish(<<NoResponseText>>), <<>>)
    ELSE AloneLoop(conns, FirstParts(answers[1].response), 1, <<>>, Tail(answers))

\* C19: whatever the interleaving of the invocations, each invocation
\* that has returned or thrown has returned or thrown exactly what a
\* processQuery run alone returns or throws for the answers this
\* invocation was given, and one that has not is suspended as it would be
\* alone; a step of one invocation changes nothing of another.
C19_InvocationsDoNotInterfere ==
    /\ [](\A q \in QueryIds :
            LET alone == Alone(mcpConnections, received[q])
            IN  /\ pq[q].pc = "returned" <=> alone.pc = "returned"
                /\ pq[q].pc = "threw" <=> alone.pc = "threw"
                /\ pq[q].returned = alone.returned
                /\ pq[q].error = alone.error)
    /\ [][\A q, o \in QueryIds :
            (q # o /\ pq'[q] # pq[q]) => (pq'[o] = pq[o] /\ received'[o] = received[o])]_vars

\* C19 witness: two invocations are suspended at the same time, given
\* different answers: invocation 1 awaits the follow-up of its second call
\* with the fragment of its first, invocation 2 awaits its first callTool
\* with the text "A" buffered.
C19_Witness ==
    /\ pq[1].pc = "awaitFollowUp"
    /\ Len(received[1]) = 4
    /\ pq[1].finalText = <<ToolResultText(<<>>)>>
    /\ pq[2].pc = "awaitTool"
    /\ Len(received[2]) = 1
    /\ pq[2].finalText = <<<<"A">>>>

\* ------------------------------------------------------ connection attempt
\* C20: an attempt calls listTools only on a client whose connect has
\* completed, and the attempt of a client whose connect has failed does
\* not succeed.
C20_ListToolsAfterConnect ==
    /\ [][\A k \in DOMAIN attempts' :
            k \notin DOMAIN attempts => clients'[k].link = "established"]_vars
    /\ [](\A k \in DOMAIN attempts :
            clients[k].link = "failed" => attempts[k].state # "fulfilled")

====
